---- MODULE Spec2Model ----
(***************************************************************************)
(* A model of simrank.py: the BipartiteGraph store (add_edge, the lookups, *)
(* split_subgraphs) and the two solvers simrank_bipartite and              *)
(* simrank_double_plus_bipartite.                                          *)
(*                                                                         *)
(* Numbers.  A Python/numpy float is modelled by a decimal fixed-point     *)
(* number with six fractional digits: the integer x stands for x / Scale,  *)
(* products and quotients are truncated.  Every quantity the program       *)
(* computes from non-negative weights is >= 0, so the value NaN (what      *)
(* numpy yields for 0.0/0.0 and for the variance of an empty list) is      *)
(* modelled by a negative integer that no computation produces.            *)
(*                                                                         *)
(* Dictionaries.  A dict is a function; the iteration order of a dict is   *)
(* a fixed but unspecified order of its keys (SeqOf, built with CHOOSE).   *)
(* set.pop() takes an arbitrary element: a nondeterministic choice.        *)
(*                                                                         *)
(* numpy arrays are objects: the solvers' names lns_sim, lns_sim_prev,     *)
(* rns_sim, rns_sim_prev hold references into the variable heap, so that   *)
(* np.copy (a new object) is distinguishable from an alias.                *)
(***************************************************************************)
EXTENDS Integers, Sequences, FiniteSets, TLC

VARIABLES
    G,             \* the graph under construction: [lns |-> dict, rns |-> dict]
    err,           \* outcome of the last call: "none", "KeyError", "NameError"
    wating_edges,  \* split_subgraphs: edges not yet processed
    result_list,   \* split_subgraphs: subgraphs completed so far
    spc,           \* split_subgraphs: "idle", "loop", "returned"
    sv             \* the running solver call: its parameters and locals

vars == <<G, err, wating_edges, result_list, spc, sv>>

----------------------------------------------------------------------------
(* Fixed-point numbers *)

Scale == 1000 * 1000

NaN == -1

Max(a, b) == IF a >= b THEN a ELSE b

AbsDiff(a, b) == IF a = NaN \/ b = NaN THEN NaN ELSE IF a >= b THEN a - b ELSE b - a

FAdd(a, b) == IF a = NaN \/ b = NaN THEN NaN ELSE a + b

FSub(a, b) == IF a = NaN \/ b = NaN THEN NaN ELSE a - b

\* a * b, truncated: floor(a * b / Scale), computed in pieces of three digits
FMul(a, b) ==
    IF a = NaN \/ b = NaN THEN NaN
    ELSE LET a1 == a \div 1000
             a0 == a % 1000
             b1 == b \div 1000
             b0 == b % 1000
             m  == a1 * b0 + a0 * b1
             c  == a0 * b0
         IN  a1 * b1 + (m \div 1000) + (((m % 1000) * 1000 + c) \div Scale)

\* a / b, truncated: floor(a * Scale / b) by long division, two digits a step.
\* Dividing zero by zero gives NaN (numpy warns and does not raise).
FDiv(a, b) ==
    IF a = NaN \/ b = NaN THEN NaN
    ELSE IF b = 0 THEN NaN
    ELSE LET r0 == a % b
             d1 == (r0 * 100) \div b
             r1 == (r0 * 100) % b
             d2 == (r1 * 100) \div b
             r2 == (r1 * 100) % b
             d3 == (r2 * 100) \div b
         IN  (a \div b) * Scale + d1 * 10000 + d2 * 100 + d3

\* a / n for a Python int n (a length or a product of lengths)
FDivInt(a, n) == IF a = NaN THEN NaN ELSE a \div n

RECURSIVE ExpSeries(_, _, _)
\* sum of the terms v^k / k! from term t = v^(k-1)/(k-1)! on, until they vanish
ExpSeries(v, t, k) ==
    IF t = 0 THEN 0 ELSE t + ExpSeries(v, FMul(t, v) \div k, k + 1)

\* np.exp(-v) for v >= 0
ExpNeg(v) == IF v = NaN THEN NaN ELSE FDiv(Scale, ExpSeries(v, Scale, 1))

----------------------------------------------------------------------------
(* Dictionaries and sequences *)

RECURSIVE SeqOf(_)
\* the keys of a dict in its iteration order
SeqOf(S) ==
    IF S = {} THEN <<>>
    ELSE LET x == CHOOSE y \in S : TRUE IN <<x>> \o SeqOf(S \ {x})

RECURSIVE SumRange(_, _, _)
\* s[lo] + ... + s[hi]; the sum of no numbers is 0
SumRange(s, lo, hi) ==
    IF lo > hi THEN 0
    ELSE IF lo = hi THEN s[lo]
    ELSE FAdd(SumRange(s, lo, (lo + hi) \div 2), SumRange(s, ((lo + hi) \div 2) + 1, hi))

\* sum(s) of a list (np.sum, and the accumulation loops)
SumSeq(s) == SumRange(s, 1, Len(s))

\* the values of dict d as a list
Values(d) == LET ks == SeqOf(DOMAIN d) IN [i \in 1..Len(ks) |-> d[ks[i]]]

EmptyDict == <<>>

\* d[k] = v on a dict
Put(d, k, v) == [x \in (DOMAIN d) \cup {k} |-> IF x = k THEN v ELSE d[x]]

----------------------------------------------------------------------------
(* BipartiteGraph *)

NewGraph == [lns |-> EmptyDict, rns |-> EmptyDict]

\* defaultdict(dict).__getitem__: a missing key is inserted with an empty dict
Touch(d, k) == IF k \in DOMAIN d THEN d ELSE Put(d, k, EmptyDict)

add_edge(g, source, target, weight) ==
    [lns |-> Put(Touch(g.lns, source), source, Put(Touch(g.lns, source)[source], target, weight)),
     rns |-> Put(Touch(g.rns, target), target, Put(Touch(g.rns, target)[target], source, weight))]

get_lns(g) == DOMAIN g.lns

get_rns(g) == DOMAIN g.rns

get_lns_count(g) == Cardinality(DOMAIN g.lns)

\* dict((node, i) for i, node in enumerate(d))
IndexOf(d) ==
    LET ks == SeqOf(DOMAIN d)
    IN  [n \in DOMAIN d |-> (CHOOSE i \in 1..Len(ks) : ks[i] = n) - 1]

get_lns_index(g) == IndexOf(g.lns)

get_rns_index(g) == IndexOf(g.rns)

get_neighbors(g, node, is_lns) == IF is_lns THEN g.lns[node] ELSE g.rns[node]

\* the (ln, rn) pairs of g
EdgesOf(g) == {e \in (DOMAIN g.lns) \X (DOMAIN g.rns) : e[2] \in DOMAIN g.lns[e[1]]}

RECURSIVE AddAll(_, _)
\* a script of add_edge calls, in order
AddAll(g, calls) ==
    IF Len(calls) = 0 THEN g
    ELSE AddAll(add_edge(g, calls[1][1], calls[1][2], calls[1][3]), Tail(calls))

\* a lookup that answers the default weight of add_edge, 1.0, for every edge
get_weight_default(g, ln, rn) == [g |-> g, err |-> "none", val |-> Scale]

\* self._lns[ln][rn]: the outcome of get_weight as [g, err, val]
get_weight(g, ln, rn) ==
    LET lns1 == Touch(g.lns, ln)
    IN  IF rn \in DOMAIN lns1[ln]
        THEN [g |-> g, err |-> "none", val |-> lns1[ln][rn]]
        ELSE [g |-> [g EXCEPT !.lns = lns1], err |-> "KeyError", val |-> NaN]

\* get_ln_neighbors / get_rn_neighbors: the outcome as [g, err, val]
get_side_neighbors(g, node, is_lns) ==
    LET d == IF is_lns THEN g.lns ELSE g.rns
    IN  IF node \notin DOMAIN d
        THEN [g |-> g, err |-> "KeyError", val |-> EmptyDict]
        ELSE [g |-> g, err |-> "none", val |-> d[node]]

RECURSIVE Filter(_, _)
\* filter(lambda x: x in keep, s) on a list
Filter(s, keep) ==
    IF s = <<>> THEN <<>>
    ELSE IF Head(s) \in keep THEN <<Head(s)>> \o Filter(Tail(s), keep)
    ELSE Filter(Tail(s), keep)

\* line 78: the right neighbours of ln whose edge is still waiting
CandidateRns(g, ln, waiting) ==
    Filter(SeqOf(DOMAIN g.lns[ln]), {rn \in DOMAIN g.lns[ln] : <<ln, rn>> \in waiting})

NoCandidateLns(g, rn, waiting) == <<>>

\* line 84: the left neighbours of rn whose edge to rn is still waiting
CandidateLns(g, rn, waiting) ==
    Filter(SeqOf(DOMAIN g.rns[rn]), {ln \in DOMAIN g.rns[rn] : <<ln, rn>> \in waiting})

RECURSIVE ForRns(_, _, _, _)
\* lines 78-84: the for loop over the candidate right nodes of ln
ForRns(g, ln, cand, st) ==
    IF cand = <<>> THEN st
    ELSE LET rn   == Head(cand)
             left == st.wating_edges \ {<<ln, rn>>}
         IN  ForRns(g, ln, Tail(cand),
                    [sub          |-> add_edge(st.sub, ln, rn, get_weight(g, ln, rn).val),
                     wating_edges |-> left,
                     wating_lns   |-> st.wating_lns \o CandidateLns(g, rn, left)])

RECURSIVE WhileLns(_, _)
\* lines 74-84: the while loop over wating_lns
WhileLns(g, st) ==
    IF st.wating_lns = <<>> THEN st
    ELSE LET ln == Head(st.wating_lns)
             s1 == [st EXCEPT !.wating_lns = Tail(st.wating_lns)]
         IN  WhileLns(g, ForRns(g, ln, CandidateRns(g, ln, s1.wating_edges), s1))

----------------------------------------------------------------------------
(* Inputs of the graph specification *)

GLeft == {"A", "B", "C"}

GRight == {1, 2, 3}

GWeights == {Scale, 2 * Scale}

MaxEdges == 3

\* lines 428-437 of __main__ (weight defaults to 1.0)
Example3Calls ==
    << <<"A", 1, Scale>>, <<"A", 2, Scale>>, <<"B", 1, Scale>>, <<"B", 3, Scale>>,
       <<"C", 3, Scale>>, <<"D", 4, Scale>>, <<"D", 5, Scale>>, <<"E", 5, Scale>> >>

SolverIdle == [pc |-> "idle"]

Building == spc = "idle" /\ sv.pc = "idle"

----------------------------------------------------------------------------
(* Actions of the graph store *)

Init ==
    /\ G = NewGraph
    /\ err = "none"
    /\ wating_edges = {}
    /\ result_list = <<>>
    /\ spc = "idle"
    /\ sv = SolverIdle

AddEdge(source, target, weight) ==
    /\ Building
    /\ G' = add_edge(G, source, target, weight)
    /\ err' = "none"
    /\ UNCHANGED <<wating_edges, result_list, spc, sv>>

\* G3 = BipartiteGraph() and the eight add_edge calls of example3
BuildExample3 ==
    /\ Building
    /\ G = NewGraph
    /\ G' = AddAll(NewGraph, Example3Calls)
    /\ err' = "none"
    /\ UNCHANGED <<wating_edges, result_list, spc, sv>>

GetWeight(ln, rn) ==
    /\ Building
    /\ LET out == get_weight(G, ln, rn)
       IN  /\ G' = out.g
           /\ err' = out.err
    /\ UNCHANGED <<wating_edges, result_list, spc, sv>>

GetNeighbors(node, is_lns) ==
    /\ Building
    /\ LET out == get_side_neighbors(G, node, is_lns)
       IN  /\ G' = out.g
           /\ err' = out.err
    /\ UNCHANGED <<wating_edges, result_list, spc, sv>>

\* lines 59-64
SplitStart ==
    /\ Building
    /\ wating_edges' = EdgesOf(G)
    /\ result_list' = <<>>
    /\ spc' = "loop"
    /\ UNCHANGED <<G, err, sv>>

\* lines 65-87: one round of the outer loop, wating_edges.pop() being any edge
SplitStep ==
    /\ spc = "loop"
    /\ wating_edges # {}
    /\ \E e \in wating_edges :
          LET st == WhileLns(G, [sub          |-> NewGraph,
                                 wating_edges |-> wating_edges,
                                 wating_lns   |-> <<e[1]>>])
          IN  /\ wating_edges' = st.wating_edges
              /\ result_list' = Append(result_list, st.sub)
    /\ UNCHANGED <<G, err, spc, sv>>

\* line 89
SplitReturn ==
    /\ spc = "loop"
    /\ wating_edges = {}
    /\ spc' = "returned"
    /\ UNCHANGED <<G, err, wating_edges, result_list, sv>>

NextGraph ==
    \/ \E l \in GLeft, r \in GRight, w \in GWeights :
          Cardinality(EdgesOf(G)) < MaxEdges /\ AddEdge(l, r, w)
    \/ BuildExample3
    \/ \E l \in GLeft, r \in GRight : GetWeight(l, r)
    \/ \E l \in GLeft : GetNeighbors(l, TRUE)
    \/ \E r \in GRight : GetNeighbors(r, FALSE)
    \/ SplitStart
    \/ SplitStep
    \/ SplitReturn

SpecGraph == Init /\ [][NextGraph]_vars

----------------------------------------------------------------------------
(* numpy arrays and the solvers' helpers *)

\* np.identity(n)
Identity(n) == [i \in 0..(n - 1) |-> [j \in 0..(n - 1) |-> IF i = j THEN Scale ELSE 0]]

\* np.zeros((n, m))
Zeros(n, m) == [i \in 0..(n - 1) |-> [j \in 0..(m - 1) |-> 0]]

\* the node that an index mapping sends to i
NodeAt(index, i) == CHOOSE n \in DOMAIN index : index[n] = i

\* itertools.product(a, b) of two lists, as the list of pairs
Product(a, b) ==
    [k \in 1..(Len(a) * Len(b)) |-> <<a[((k - 1) \div Len(b)) + 1], b[((k - 1) % Len(b)) + 1]>>]

\* default rtol of np.allclose, 1e-5
RTol == Scale \div 100000

\* np.allclose(A, B, atol=eps): |a - b| <= eps + rtol * |b| for every entry;
\* a NaN on either side compares unequal
AllClose(A, B, eps) ==
    \A i \in DOMAIN A : \A j \in DOMAIN A[i] :
        /\ A[i][j] # NaN
        /\ B[i][j] # NaN
        /\ AbsDiff(A[i][j], B[i][j]) <= eps + FMul(RTol, B[i][j])

\* np.multiply(A, B)
Multiply(A, B) == [i \in DOMAIN A |-> [j \in DOMAIN A[i] |-> FMul(A[i][j], B[i][j])]]

\* np.var(ws): the mean of the squared deviations from the mean; NaN for no values
Var(ws) ==
    IF Len(ws) = 0 THEN NaN
    ELSE LET mean == FDivInt(SumSeq(ws), Len(ws))
             dev  == [k \in 1..Len(ws) |-> AbsDiff(ws[k], mean)]
         IN  FDivInt(SumSeq([k \in 1..Len(ws) |-> FMul(dev[k], dev[k])]), Len(ws))

\* lines 207-209
calculated_evidence ==
    <<0, 500000, 750000, 875000, 937500, 968750, 984380, 992190, 996090, 998050, 999020>>

\* the table read one place too far
evidence_uv_shifted(g, u, v, is_lns) ==
    LET u_ns == DOMAIN get_neighbors(g, u, is_lns)
        v_ns == DOMAIN get_neighbors(g, v, is_lns)
        intersection == Cardinality(u_ns \cap v_ns)
    IN  IF u_ns = {} \/ v_ns = {} THEN 0
        ELSE IF intersection < 10 THEN calculated_evidence[intersection + 2]
        ELSE Scale

\* lines 218-227: the evidence of the pair u, v
evidence_uv(g, u, v, is_lns) ==
    LET u_ns == DOMAIN get_neighbors(g, u, is_lns)
        v_ns == DOMAIN get_neighbors(g, v, is_lns)
        intersection == Cardinality(u_ns \cap v_ns)
    IN  IF u_ns = {} \/ v_ns = {} THEN 0
        ELSE IF intersection <= 10 THEN calculated_evidence[intersection + 1]
        ELSE Scale

\* lines 195-232: _calculate_evidence on np.identity(len(ns))
calculate_evidence(g, is_lns) ==
    LET ns_index == IF is_lns THEN get_lns_index(g) ELSE get_rns_index(g)
        n == Cardinality(DOMAIN ns_index)
    IN  [i \in 0..(n - 1) |-> [j \in 0..(n - 1) |->
            IF i = j THEN Scale
            ELSE evidence_uv(g, NodeAt(ns_index, i), NodeAt(ns_index, j), is_lns)]]

\* lines 235-244: _calculate_spread, the vector indexed like the side
calculate_spread(g, is_lns) ==
    LET ns_index == IF is_lns THEN get_lns_index(g) ELSE get_rns_index(g)
        n == Cardinality(DOMAIN ns_index)
    IN  [i \in 0..(n - 1) |->
            ExpNeg(Var(Values(get_neighbors(g, NodeAt(ns_index, i), is_lns))))]

UnnormalizedWeight(w, denom_factor) == w

\* lines 254, 256: nbrs[nbr] / denom_factor
NormalizedWeight(w, denom_factor) == FDiv(w, denom_factor)

\* lines 247-256: _calculate_normalized_weight on np.zeros; row: node_from
calculate_normalized_weight(g, is_lns) ==
    LET from_index == IF is_lns THEN get_lns_index(g) ELSE get_rns_index(g)
        to_index   == IF is_lns THEN get_rns_index(g) ELSE get_lns_index(g)
        n == Cardinality(DOMAIN from_index)
        m == Cardinality(DOMAIN to_index)
    IN  [i \in 0..(n - 1) |-> [j \in 0..(m - 1) |->
            LET nbrs == get_neighbors(g, NodeAt(from_index, i), is_lns)
                nbr  == NodeAt(to_index, j)
            IN  IF nbr \in DOMAIN nbrs
                THEN NormalizedWeight(nbrs[nbr], SumSeq(Values(nbrs)))
                ELSE 0]]

\* lines 267-288: one direction of _calculate_transition_prob, as
\* [prob |-> matrix, self |-> vector]; spread is the spread of the other side
transition_prob(g, is_lns, norm_weight, spread) ==
    LET from_index == IF is_lns THEN get_lns_index(g) ELSE get_rns_index(g)
        to_index   == IF is_lns THEN get_rns_index(g) ELSE get_lns_index(g)
        n == Cardinality(DOMAIN from_index)
        m == Cardinality(DOMAIN to_index)
        prob == [i \in 0..(n - 1) |-> [j \in 0..(m - 1) |->
                    IF NodeAt(to_index, j) \in DOMAIN get_neighbors(g, NodeAt(from_index, i), is_lns)
                    THEN FMul(spread[j], norm_weight[i][j])
                    ELSE 0]]
    IN  [prob |-> prob,
         self |-> [i \in 0..(n - 1) |->
                     LET nbrs == SeqOf(DOMAIN get_neighbors(g, NodeAt(from_index, i), is_lns))
                     IN  FSub(Scale, SumSeq([k \in 1..Len(nbrs) |-> prob[i][to_index[nbrs[k]]]]))]]

\* lines 123-124 / 138-139: the basic similarity of u and v from the other
\* side's previous matrix
basic_sim(g, is_lns, r, prev, u, v) ==
    LET to_index == IF is_lns THEN get_rns_index(g) ELSE get_lns_index(g)
        u_ns  == SeqOf(DOMAIN get_neighbors(g, u, is_lns))
        v_ns  == SeqOf(DOMAIN get_neighbors(g, v, is_lns))
        pairs == Product(u_ns, v_ns)
        s_uv  == SumSeq([k \in 1..Len(pairs) |->
                            prev[to_index[pairs[k][1]]][to_index[pairs[k][2]]]])
    IN  FDivInt(FMul(r, s_uv), Len(u_ns) * Len(v_ns))

\* lines 302-311 / 325-334: the SimRank++ similarity of u and v
pp_sim(g, is_lns, r, prob, prev, u, v) ==
    LET from_index == IF is_lns THEN get_lns_index(g) ELSE get_rns_index(g)
        to_index   == IF is_lns THEN get_rns_index(g) ELSE get_lns_index(g)
        u_ns  == SeqOf(DOMAIN get_neighbors(g, u, is_lns))
        v_ns  == SeqOf(DOMAIN get_neighbors(g, v, is_lns))
        pairs == Product(u_ns, v_ns)
        sim   == SumSeq([k \in 1..Len(pairs) |->
                    LET u_n_index == to_index[pairs[k][1]]
                        v_n_index == to_index[pairs[k][2]]
                    IN  FMul(FMul(prob[from_index[u]][u_n_index], prob[from_index[v]][v_n_index]),
                             prev[u_n_index][v_n_index])])
    IN  FMul(r, sim)

\* _update_left_partite / _update_right_partite of either solver: the matrix
\* cur after the loop over itertools.product(ns, ns).  Each pair u, v writes
\* both [u][v] and [v][u], so an entry keeps what the later of the pairs
\* (u, v), (v, u) wrote: the one whose first node has the larger index.
update_partite(g, is_lns, kind, r, prob, prev, cur) ==
    LET ns_index == IF is_lns THEN get_lns_index(g) ELSE get_rns_index(g)
    IN  [i \in DOMAIN cur |-> [j \in DOMAIN cur[i] |->
            IF i = j THEN cur[i][j]
            ELSE LET u == NodeAt(ns_index, Max(i, j))
                     v == NodeAt(ns_index, IF i < j THEN i ELSE j)
                 IN  IF Cardinality(DOMAIN get_neighbors(g, u, is_lns)) = 0
                        \/ Cardinality(DOMAIN get_neighbors(g, v, is_lns)) = 0
                     THEN 0
                     ELSE IF kind = "basic" THEN basic_sim(g, is_lns, r, prev, u, v)
                     ELSE pp_sim(g, is_lns, r, prob, prev, u, v)]]

----------------------------------------------------------------------------
(* The solvers as state machines *)

\* the loop variable i before the for statement has assigned it
Unbound == -1

\* defaults of both solvers: r=0.8, max_iter=100, eps=1e-4
DefaultR == 800000

DefaultMaxIter == 100

DefaultEps == 100

\* lines 96-109 and 160-193: the locals of a solver call on graph g
SolverInit(g, kind, r, max_iter, eps) ==
    LET lns_count == Cardinality(get_lns(g))
        rns_count == Cardinality(get_rns(g))
    IN  [pc |-> "start", kind |-> kind, r |-> r, max_iter |-> max_iter, eps |-> eps,
         i |-> Unbound,
         heap |-> [L0 |-> Identity(lns_count), L1 |-> Identity(lns_count),
                   R0 |-> Identity(rns_count), R1 |-> Identity(rns_count)],
         lns_sim_prev |-> "L0", lns_sim |-> "L1",
         rns_sim_prev |-> "R0", rns_sim |-> "R1",
         lns_evidence |-> Identity(lns_count), rns_evidence |-> Identity(rns_count),
         lns_spread |-> [k \in 0..(lns_count - 1) |-> 0],
         rns_spread |-> [k \in 0..(rns_count - 1) |-> 0],
         norm_weight_l_to_r |-> Zeros(lns_count, rns_count),
         norm_weight_r_to_l |-> Zeros(rns_count, lns_count),
         transition_prob_l_to_r |-> Zeros(lns_count, rns_count),
         transition_prob_r_to_l |-> Zeros(rns_count, lns_count),
         self_transition_prob_l |-> [k \in 0..(lns_count - 1) |-> 0],
         self_transition_prob_r |-> [k \in 0..(rns_count - 1) |-> 0],
         trace |-> << [L |-> Identity(lns_count), R |-> Identity(rns_count)] >>,
         out |-> <<>>]

\* for i in range(max_iter): the next round of the loop, or its end
ForNext(s, body) ==
    LET k == IF s.i = Unbound THEN 0 ELSE s.i + 1
    IN  IF k < s.max_iter THEN [s EXCEPT !.i = k, !.pc = body]
        ELSE [s EXCEPT !.pc = "print"]

\* the array object that is not src, on the side of src: a new allocation
\* (the object the name pointed to before is no longer referenced)
Fresh(src) ==
    CASE src = "L0" -> "L1"
      [] src = "L1" -> "L0"
      [] src = "R0" -> "R1"
      [] src = "R1" -> "R0"

no_copy(heap, src) == [slot |-> src, heap |-> heap]

\* np.copy(src): a new array with the contents of src
np_copy(heap, src) ==
    [slot |-> Fresh(src), heap |-> [heap EXCEPT ![Fresh(src)] = heap[src]]]

\* lines 145-146 / 371-372
copy_prev(s) ==
    LET l == np_copy(s.heap, s.lns_sim)
        r == np_copy(l.heap, s.rns_sim)
    IN  [s EXCEPT !.heap = r.heap, !.lns_sim_prev = l.slot, !.rns_sim_prev = r.slot]

\* lines 142 / 368
converged(s) ==
    /\ AllClose(s.heap[s.lns_sim], s.heap[s.lns_sim_prev], s.eps)
    /\ AllClose(s.heap[s.rns_sim], s.heap[s.rns_sim_prev], s.eps)

\* _update_left_partite(): writes the array lns_sim, reads the array rns_sim_prev
update_left_partite(g, s) ==
    [s EXCEPT !.heap[s.lns_sim] =
        update_partite(g, TRUE, s.kind, s.r, s.transition_prob_l_to_r,
                       s.heap[s.rns_sim_prev], s.heap[s.lns_sim])]

\* _update_right_partite(): writes the array rns_sim, reads the array lns_sim_prev
update_right_partite(g, s) ==
    [s EXCEPT !.heap[s.rns_sim] =
        update_partite(g, FALSE, s.kind, s.r, s.transition_prob_r_to_l,
                       s.heap[s.lns_sim_prev], s.heap[s.rns_sim])]

\* lines 364-366: the matrices at the end of a pass
snapshot(s) == [s EXCEPT !.trace = Append(@, [L |-> s.heap[s.lns_sim], R |-> s.heap[s.rns_sim]])]

\* lines 338-339
calc_evidence(g, s) ==
    [s EXCEPT !.lns_evidence = calculate_evidence(g, TRUE),
              !.rns_evidence = calculate_evidence(g, FALSE)]

\* lines 259-288
calc_transition_prob(g, s) ==
    LET ls == calculate_spread(g, TRUE)
        rs == calculate_spread(g, FALSE)
        nl == calculate_normalized_weight(g, TRUE)
        nr == calculate_normalized_weight(g, FALSE)
        tl == transition_prob(g, TRUE, nl, rs)
        tr == transition_prob(g, FALSE, nr, ls)
    IN  [s EXCEPT !.lns_spread = ls, !.rns_spread = rs,
                  !.norm_weight_l_to_r = nl, !.norm_weight_r_to_l = nr,
                  !.transition_prob_l_to_r = tl.prob, !.transition_prob_r_to_l = tr.prob,
                  !.self_transition_prob_l = tl.self, !.self_transition_prob_r = tr.self]

returned_raw(s) == [L |-> s.heap[s.lns_sim], R |-> s.heap[s.rns_sim]]

\* lines 153 / 377-378: the pair of matrices returned
returned(s) ==
    IF s.kind = "basic" THEN [L |-> s.heap[s.lns_sim], R |-> s.heap[s.rns_sim]]
    ELSE [L |-> Multiply(s.heap[s.lns_sim], s.lns_evidence),
          R |-> Multiply(s.heap[s.rns_sim], s.rns_evidence)]

Solving == sv.pc \notin {"idle", "done", "raised"}

\* simrank_bipartite(G, r, max_iter, eps) is called: lines 96-109, then the for
StartBasic(r, max_iter, eps) ==
    /\ sv.pc = "idle"
    /\ spc \in {"idle", "returned"}
    /\ sv' = ForNext(SolverInit(G, "basic", r, max_iter, eps), "check")
    /\ UNCHANGED <<G, err, wating_edges, result_list, spc>>

\* simrank_double_plus_bipartite(G, r, max_iter, eps) is called: lines 160-193
StartPP(r, max_iter, eps) ==
    /\ sv.pc = "idle"
    /\ spc \in {"idle", "returned"}
    /\ sv' = [SolverInit(G, "pp", r, max_iter, eps) EXCEPT !.pc = "evidence"]
    /\ UNCHANGED <<G, err, wating_edges, result_list, spc>>

CalcEvidence ==
    /\ sv.pc = "evidence"
    /\ sv' = [calc_evidence(G, sv) EXCEPT !.pc = "transition"]
    /\ UNCHANGED <<G, err, wating_edges, result_list, spc>>

\* line 342, then the for of line 360
CalcTransitionProb ==
    /\ sv.pc = "transition"
    /\ sv' = ForNext(calc_transition_prob(G, sv), "left")
    /\ UNCHANGED <<G, err, wating_edges, result_list, spc>>

\* lines 148 / 361
UpdateLeft ==
    /\ sv.pc = "left"
    /\ sv' = [update_left_partite(G, sv) EXCEPT !.pc = "right"]
    /\ UNCHANGED <<G, err, wating_edges, result_list, spc>>

\* lines 149 / 362; in the basic solver the pass ends here and the for goes on
UpdateRight ==
    /\ sv.pc = "right"
    /\ LET s == snapshot(update_right_partite(G, sv))
       IN  sv' = IF s.kind = "basic" THEN ForNext(s, "check") ELSE [s EXCEPT !.pc = "check"]
    /\ UNCHANGED <<G, err, wating_edges, result_list, spc>>

\* lines 142-143 / 368-369: break
Break ==
    /\ sv.pc = "check"
    /\ converged(sv)
    /\ sv' = [sv EXCEPT !.pc = "print"]
    /\ UNCHANGED <<G, err, wating_edges, result_list, spc>>

\* lines 145-146 / 371-372; in SimRank++ the pass ends here and the for goes on
CopyPrev ==
    /\ sv.pc = "check"
    /\ ~converged(sv)
    /\ sv' = IF sv.kind = "basic" THEN [copy_prev(sv) EXCEPT !.pc = "left"]
             ELSE ForNext(copy_prev(sv), "left")
    /\ UNCHANGED <<G, err, wating_edges, result_list, spc>>

\* lines 151-153 / 375-378: the print reads i, which is unbound if the loop
\* body never ran (NameError); otherwise the matrices are returned
PrintReturn ==
    /\ sv.pc = "print"
    /\ IF sv.i = Unbound
       THEN /\ sv' = [sv EXCEPT !.pc = "raised"]
            /\ err' = "NameError"
       ELSE /\ sv' = [sv EXCEPT !.pc = "done", !.out = returned(sv)]
            /\ err' = err
    /\ UNCHANGED <<G, wating_edges, result_list, spc>>

SolverStep ==
    \/ CalcEvidence
    \/ CalcTransitionProb
    \/ UpdateLeft
    \/ UpdateRight
    \/ Break
    \/ CopyPrev
    \/ PrintReturn

----------------------------------------------------------------------------
(* Inputs of the solver specification *)

SLeft == {"camera", "digital_camera", "pc"}

SRight == {"hp.com", "bestbuy.com"}

SWeights == {Scale, 2 * Scale}

SMaxEdges == 3

MaxIterSmall == 3

\* lines 388-391 of __main__
Example1Calls ==
    << <<"camera", "hp.com", Scale>>, <<"camera", "bestbuy.com", Scale>>,
       <<"digital_camera", "hp.com", Scale>>, <<"digital_camera", "bestbuy.com", Scale>> >>

\* lines 409-410 of __main__
Example2Calls == << <<"pc", "hp.com", Scale>>, <<"camera", "hp.com", Scale>> >>

\* G = BipartiteGraph() and the add_edge calls of example 1 or of example2
BuildExample(calls) ==
    /\ Building
    /\ G = NewGraph
    /\ G' = AddAll(NewGraph, calls)
    /\ err' = "none"
    /\ UNCHANGED <<wating_edges, result_list, spc, sv>>

Dampings == {0, DefaultR, Scale}

Caps == {0, MaxIterSmall, DefaultMaxIter}

Next ==
    \/ \E l \in SLeft, r \in SRight, w \in SWeights :
          Cardinality(EdgesOf(G)) < SMaxEdges /\ AddEdge(l, r, w)
    \/ \E calls \in {Example1Calls, Example2Calls} : BuildExample(calls)
    \/ \E l \in SLeft, r \in SRight : GetWeight(l, r)
    \/ \E r \in Dampings, m \in Caps : StartBasic(r, m, DefaultEps)
    \/ \E r \in Dampings, m \in Caps : StartPP(r, m, DefaultEps)
    \/ SolverStep

Spec == Init /\ [][Next]_vars

----------------------------------------------------------------------------
(* Claims about the graph store *)

\* two edges share an endpoint
Linked(e, f) == e[1] = f[1] \/ e[2] = f[2]

RECURSIVE Closure(_, _)
\* the edges of E joined to an edge of S by a path of edges sharing endpoints
Closure(E, S) ==
    LET T == S \cup {f \in E : \E e \in S : Linked(e, f)}
    IN  IF T = S THEN S ELSE Closure(E, T)

Components(E) == {Closure(E, {e}) : e \in E}

Example3Graph == AddAll(NewGraph, Example3Calls)

\* C1: when split_subgraphs returns, its outputs are exactly the connected
\* components of the graph: every edge of the graph is in exactly one output,
\* with its weight, on both adjacency mappings; no output has another edge
\* or is empty; the edge sets of the outputs are the classes of the relation
\* "joined by a path of edges sharing endpoints"; no node is in two outputs;
\* there are as many outputs as components, and two for the graph of example3.
C1_SplitIsComponents ==
    spc = "returned" =>
        LET E    == EdgesOf(G)
            n    == Len(result_list)
            Out(i) == EdgesOf(result_list[i])
        IN  /\ \A e \in E : Cardinality({i \in 1..n : e \in Out(i)}) = 1
            /\ \A i \in 1..n :
                  /\ Out(i) # {}
                  /\ Out(i) \subseteq E
                  /\ Out(i) \in Components(E)
                  /\ \A e \in Out(i) :
                        /\ result_list[i].lns[e[1]][e[2]] = G.lns[e[1]][e[2]]
                        /\ result_list[i].rns[e[2]][e[1]] = G.rns[e[2]][e[1]]
                  /\ DOMAIN result_list[i].lns = {e[1] : e \in Out(i)}
                  /\ DOMAIN result_list[i].rns = {e[2] : e \in Out(i)}
                  /\ \A l \in DOMAIN result_list[i].lns :
                        DOMAIN result_list[i].lns[l] = {e[2] : e \in {f \in Out(i) : f[1] = l}}
                  /\ \A r \in DOMAIN result_list[i].rns :
                        DOMAIN result_list[i].rns[r] = {e[1] : e \in {f \in Out(i) : f[2] = r}}
            /\ \A i, j \in 1..n :
                  i # j => /\ DOMAIN result_list[i].lns \cap DOMAIN result_list[j].lns = {}
                           /\ DOMAIN result_list[i].rns \cap DOMAIN result_list[j].rns = {}
            /\ \A e, f \in E :
                  (\E i \in 1..n : e \in Out(i) /\ f \in Out(i)) <=> f \in Closure(E, {e})
            /\ n = Cardinality(Components(E))
            /\ (G = Example3Graph => n = 2)

\* C1 witness: the split of example3 has returned its two subgraphs
C1_Witness ==
    /\ spc = "returned"
    /\ G = Example3Graph
    /\ Len(result_list) = 2
    /\ \E i \in 1..2 : DOMAIN result_list[i].lns = {"A", "B", "C"}

\* C10: a lookup of what is absent (get_weight of a missing edge, also of a
\* left node never inserted; get_ln_neighbors / get_rn_neighbors of a missing
\* node) fails with KeyError and leaves the graph as it was.
C10_LookupsLeaveGraph ==
    [][(\/ \E l \in GLeft, r \in GRight :
              GetWeight(l, r) /\ ~(l \in DOMAIN G.lns /\ r \in DOMAIN G.lns[l])
        \/ \E l \in GLeft : GetNeighbors(l, TRUE) /\ l \notin DOMAIN G.lns
        \/ \E r \in GRight : GetNeighbors(r, FALSE) /\ r \notin DOMAIN G.rns)
       => (err' = "KeyError" /\ G' = G)]_vars

----------------------------------------------------------------------------
(* Claims about the solvers *)

Example1Graph == AddAll(NewGraph, Example1Calls)

Started == sv.pc # "idle"

\* number of update passes the call has completed
Passes == Len(sv.trace) - 1

Entries(M) == {M[i][j] : i \in DOMAIN M, j \in DOMAIN M}

OffDiagonal(M) == UNION {{M[i][j] : j \in (DOMAIN M) \ {i}} : i \in DOMAIN M}

\* the call of example 1: SimRank++ with the default damping, cap and tolerance
ScenarioA ==
    /\ G = Example1Graph
    /\ Started
    /\ sv.kind = "pp" /\ sv.r = DefaultR /\ sv.max_iter = DefaultMaxIter /\ sv.eps = DefaultEps
    /\ sv.pc = "done"

CameraPair == sv.out.L[get_lns_index(G)["camera"]][get_lns_index(G)["digital_camera"]]

\* C2 as stated: in scenario A the returned similarity of camera and
\* digital_camera is 1.0.
C2_ScenarioA_One == ScenarioA => CameraPair = Scale

\* C2 amended: in scenario A the solver converges before the cap and the
\* returned similarity of camera and digital_camera is the evidence 0.75
\* times a working similarity within tolerance of 2/3: 0.5 within tolerance.
C2_ScenarioA_Half ==
    ScenarioA =>
        /\ Passes < sv.max_iter
        /\ AbsDiff(CameraPair, Scale \div 2) <= DefaultEps
        /\ CameraPair = FMul(sv.trace[Len(sv.trace)].L[0][1], calculated_evidence[3])
        /\ AbsDiff(3 * sv.trace[Len(sv.trace)].L[0][1], 2 * Scale) <= 3 * DefaultEps

\* C2 witness: scenario A has returned
C2_Witness == ScenarioA /\ CameraPair > 0

\* C3: when the basic solver returns (max_iter >= 1), every pair of distinct
\* nodes of a side with non-empty neighbour sets has the similarity
\* damping * (sum of the previous iteration's similarity of the neighbour
\* pairs) / (|neighbours(u)| * |neighbours(v)|); two left nodes whose only
\* neighbour is one common right node get the damping.
C3_BasicReturnsUpdate ==
    (Started /\ sv.kind = "basic" /\ sv.pc = "done" /\ sv.max_iter >= 1) =>
        LET prev == sv.trace[Max(1, Len(sv.trace) - 1)]
            li   == get_lns_index(G)
            ri   == get_rns_index(G)
        IN  /\ \A u, v \in DOMAIN G.lns :
                  (u # v /\ DOMAIN G.lns[u] # {} /\ DOMAIN G.lns[v] # {}) =>
                      sv.out.L[li[u]][li[v]] = basic_sim(G, TRUE, sv.r, prev.R, u, v)
            /\ \A u, v \in DOMAIN G.rns :
                  u # v => sv.out.R[ri[u]][ri[v]] = basic_sim(G, FALSE, sv.r, prev.L, u, v)

\* C5: with positive weights and a damping in [0,1], every entry of the
\* returned matrices and of the working matrices after every pass lies in
\* [0,1], every off-diagonal working entry is at most the damping, and the
\* transition probabilities of a node are non-negative and sum to at most 1.
C5_UnitInterval ==
    Started =>
        /\ \A m \in {sv.heap[sv.lns_sim], sv.heap[sv.rns_sim]} :
              /\ \A x \in Entries(m) : 0 <= x /\ x <= Scale
              /\ \A x \in OffDiagonal(m) : x <= sv.r
        /\ \A k \in 1..Len(sv.trace) : \A m \in {sv.trace[k].L, sv.trace[k].R} :
              \A x \in Entries(m) : 0 <= x /\ x <= Scale
        /\ \A t \in {sv.transition_prob_l_to_r, sv.transition_prob_r_to_l} :
              \A i \in DOMAIN t :
                  /\ \A j \in DOMAIN t[i] : t[i][j] >= 0
                  /\ SumSeq([k \in 1..Cardinality(DOMAIN t[i]) |-> t[i][k - 1]]) <= Scale
        /\ sv.pc = "done" =>
              \A m \in {sv.out.L, sv.out.R} : \A x \in Entries(m) : 0 <= x /\ x <= Scale

\* C5 witness: SimRank++ with damping 1 has returned a matrix with an entry
\* strictly between 0 and 1 for a graph with an edge of weight 2
C5_Witness ==
    /\ Started /\ sv.pc = "done" /\ sv.kind = "pp" /\ sv.r = Scale
    /\ \E e \in EdgesOf(G) : G.lns[e[1]][e[2]] = 2 * Scale
    /\ \E x \in OffDiagonal(sv.out.L) : 0 < x /\ x < Scale

\* the largest change of an entry between the last two iterations is below eps
LastChangeBelowEps ==
    LET n == Len(sv.trace)
    IN  n >= 2 =>
            /\ \A i \in DOMAIN sv.trace[n].L : \A j \in DOMAIN sv.trace[n].L :
                  AbsDiff(sv.trace[n].L[i][j], sv.trace[n - 1].L[i][j]) < sv.eps
            /\ \A i \in DOMAIN sv.trace[n].R : \A j \in DOMAIN sv.trace[n].R :
                  AbsDiff(sv.trace[n].R[i][j], sv.trace[n - 1].R[i][j]) < sv.eps

\* C6: for every max_iter >= 0 a solver call finishes normally, after at most
\* max_iter passes, and if it stops before the cap the largest change between
\* the matrices of its last two iterations is below the tolerance.
C6_FinishesWithinCap ==
    Started =>
        /\ sv.pc # "raised"
        /\ Passes <= sv.max_iter
        /\ (sv.pc = "done" /\ Passes < sv.max_iter) => LastChangeBelowEps

\* C8: every pass is a Jacobi pass.  In every state the matrices at the end
\* of the last pass made are
\* the updates of the matrices at the end of the pass before (the left side
\* from the right one and the right side from the left one); while a pass
\* runs, the arrays named lns_sim_prev and rns_sim_prev still hold the
\* matrices of the end of the pass before; and they are never the arrays
\* that the pass writes.
C8_Jacobi ==
    (Started /\ sv.pc # "evidence") =>
        LET n == Len(sv.trace)
        IN  /\ sv.lns_sim # sv.lns_sim_prev
            /\ sv.rns_sim # sv.rns_sim_prev
            /\ n >= 2 =>
                  /\ sv.trace[n].L = update_partite(G, TRUE, sv.kind, sv.r,
                                         sv.transition_prob_l_to_r, sv.trace[n - 1].R, sv.trace[n - 1].L)
                  /\ sv.trace[n].R = update_partite(G, FALSE, sv.kind, sv.r,
                                         sv.transition_prob_r_to_l, sv.trace[n - 1].L, sv.trace[n - 1].R)
            /\ sv.pc \in {"left", "right"} =>
                  /\ sv.heap[sv.lns_sim_prev] = sv.trace[n].L
                  /\ sv.heap[sv.rns_sim_prev] = sv.trace[n].R
            /\ sv.pc = "check" =>
                  /\ sv.heap[sv.lns_sim_prev] = sv.trace[Max(1, n - 1)].L
                  /\ sv.heap[sv.rns_sim_prev] = sv.trace[Max(1, n - 1)].R

\* C8 witness: in its third pass, after the left update, the left matrix
\* differs from the frozen one that the right update is about to read
C8_Witness ==
    /\ Started /\ sv.pc = "right" /\ Len(sv.trace) = 3
    /\ sv.heap[sv.lns_sim] # sv.heap[sv.lns_sim_prev]
    /\ sv.trace[3].R # sv.trace[2].R

----------------------------------------------------------------------------
(* Zero weights: add_edge accepts any weight *)

ZLeft == {"pc", "camera"}

ZWeights == {0, Scale}

NextZero ==
    \/ \E l \in ZLeft, r \in SRight, w \in ZWeights : AddEdge(l, r, w)
    \/ StartPP(DefaultR, MaxIterSmall, DefaultEps)
    \/ SolverStep

SpecZero == Init /\ [][NextZero]_vars

\* the incident weights of node sum to zero (and there are some)
ZeroWeightNode(g, node, is_lns) ==
    /\ DOMAIN get_neighbors(g, node, is_lns) # {}
    /\ SumSeq(Values(get_neighbors(g, node, is_lns))) = 0

\* C7: in SimRank++ a node whose incident weights sum to zero has normalized
\* weight 0 and transition probability 0 to every neighbour and
\* self-transition probability 1; the call does not raise and no NaN appears
\* in its working or returned matrices.
C7_ZeroWeightGuarded ==
    (Started /\ sv.kind = "pp" /\ sv.pc \notin {"evidence", "transition"}) =>
        LET li == get_lns_index(G)
            ri == get_rns_index(G)
        IN  /\ sv.pc # "raised"
            /\ \A n \in DOMAIN G.lns : ZeroWeightNode(G, n, TRUE) =>
                  /\ \A m \in DOMAIN G.lns[n] :
                        /\ sv.norm_weight_l_to_r[li[n]][ri[m]] = 0
                        /\ sv.transition_prob_l_to_r[li[n]][ri[m]] = 0
                  /\ sv.self_transition_prob_l[li[n]] = Scale
            /\ \A n \in DOMAIN G.rns : ZeroWeightNode(G, n, FALSE) =>
                  /\ \A m \in DOMAIN G.rns[n] :
                        /\ sv.norm_weight_r_to_l[ri[n]][li[m]] = 0
                        /\ sv.transition_prob_r_to_l[ri[n]][li[m]] = 0
                  /\ sv.self_transition_prob_r[ri[n]] = Scale
            /\ NaN \notin Entries(sv.heap[sv.lns_sim]) \cup Entries(sv.heap[sv.rns_sim])
            /\ sv.pc = "done" => NaN \notin Entries(sv.out.L) \cup Entries(sv.out.R)

----------------------------------------------------------------------------
(* Evidence: graphs with many common neighbours *)

MaxCommon == 12

ELeft == {"camera", "digital_camera"}

\* both nodes of ELeft joined to the right nodes 1..k, with weight 1.0
Ladder(k) ==
    IF k = 0 THEN NewGraph
    ELSE [lns |-> [l \in ELeft |-> [r \in 1..k |-> Scale]],
          rns |-> [r \in 1..k |-> [l \in ELeft |-> Scale]]]

InitEvidence ==
    /\ G \in {Ladder(k) : k \in 0..MaxCommon}
    /\ err = "none"
    /\ wating_edges = {}
    /\ result_list = <<>>
    /\ spc = "idle"
    /\ sv = SolverIdle

NextEvidence ==
    \/ \E l \in ELeft \cup {"pc"}, r \in 1..MaxCommon :
          (\E k \in 0..MaxCommon : G = Ladder(k)) /\ AddEdge(l, r, Scale)
    \/ \E r \in 1..MaxCommon : GetWeight("pc", r)
    \/ StartPP(DefaultR, 2, DefaultEps)
    \/ SolverStep

SpecEvidence == InitEvidence /\ [][NextEvidence]_vars

RECURSIVE Pow2(_)
Pow2(k) == IF k = 0 THEN 1 ELSE 2 * Pow2(k - 1)

\* number of common neighbours of two nodes of a side
Common(g, u, v, is_lns) ==
    Cardinality(DOMAIN get_neighbors(g, u, is_lns) \cap DOMAIN get_neighbors(g, v, is_lns))

\* what holds of the evidence matrix E of a side whatever the table is:
\* diagonal 1, symmetric, 0 for an empty neighbour set, 1 above ten common
\* neighbours, and InTable(e, k) for k <= 10 common neighbours
EvidenceShape(E, g, is_lns, InTable(_, _)) ==
    LET index == IF is_lns THEN get_lns_index(g) ELSE get_rns_index(g)
    IN  \A u, v \in DOMAIN index :
            LET e == E[index[u]][index[v]]
                k == Common(g, u, v, is_lns)
            IN  /\ e = E[index[v]][index[u]]
                /\ u = v => e = Scale
                /\ (u # v /\ (DOMAIN get_neighbors(g, u, is_lns) = {}
                              \/ DOMAIN get_neighbors(g, v, is_lns) = {})) => e = 0
                /\ (u # v /\ DOMAIN get_neighbors(g, u, is_lns) # {}
                          /\ DOMAIN get_neighbors(g, v, is_lns) # {}) =>
                       IF k > 10 THEN e = Scale ELSE InTable(e, k)

\* e = 1 - 2^(-k), exactly
ClosedForm(e, k) == e * Pow2(k) = Scale * (Pow2(k) - 1)

\* e = 1 - 2^(-k) rounded to five decimal places
ClosedFormRounded(e, k) ==
    /\ e % 10 = 0
    /\ e * Pow2(k) - Scale * (Pow2(k) - 1) <= 5 * Pow2(k)
    /\ Scale * (Pow2(k) - 1) - e * Pow2(k) <= 5 * Pow2(k)

\* C9 as stated: once computed, and through every update pass, the evidence
\* of two distinct nodes with k common neighbours is exactly 1 - 2^(-k) for
\* k <= 10 and 1.0 for k > 10, 0 if a neighbour set is empty; the matrix is
\* symmetric with diagonal 1.0.
C9_EvidenceClosedForm ==
    (Started /\ sv.pc # "evidence") =>
        /\ EvidenceShape(sv.lns_evidence, G, TRUE, ClosedForm)
        /\ EvidenceShape(sv.rns_evidence, G, FALSE, ClosedForm)

\* C9 amended: as stated, but for k <= 10 the evidence is 1 - 2^(-k) rounded
\* to five decimal places (exactly 1 - 2^(-k) only for k <= 5).
C9_EvidenceRounded ==
    (Started /\ sv.pc # "evidence") =>
        /\ EvidenceShape(sv.lns_evidence, G, TRUE, ClosedFormRounded)
        /\ EvidenceShape(sv.rns_evidence, G, FALSE, ClosedFormRounded)
        /\ \A k \in 0..5 : ClosedForm(calculated_evidence[k + 1], k)

\* C9 witness: after two passes on a graph whose two left nodes have eleven
\* common neighbours and a third left node has none
C9_Witness ==
    /\ Started /\ sv.pc = "done" /\ Len(sv.trace) = 3
    /\ "pc" \in DOMAIN G.lns /\ DOMAIN G.lns["pc"] = {}
    /\ Common(G, "camera", "digital_camera", TRUE) = 11
    /\ sv.lns_evidence[get_lns_index(G)["camera"]][get_lns_index(G)["digital_camera"]] = Scale

----------------------------------------------------------------------------
(* Solving the outputs of split_subgraphs one by one *)

\* the state a solver call on g starts its first step in
SolverStart(g, kind, r, max_iter, eps) ==
    IF kind = "basic" THEN ForNext(SolverInit(g, "basic", r, max_iter, eps), "check")
    ELSE [SolverInit(g, "pp", r, max_iter, eps) EXCEPT !.pc = "evidence"]

\* one step of a solver call on g, as CalcEvidence .. PrintReturn take it
StepSolver(g, s) ==
    CASE s.pc = "evidence"   -> [calc_evidence(g, s) EXCEPT !.pc = "transition"]
      [] s.pc = "transition" -> ForNext(calc_transition_prob(g, s), "left")
      [] s.pc = "left"       -> [update_left_partite(g, s) EXCEPT !.pc = "right"]
      [] s.pc = "right"      ->
            LET t == snapshot(update_right_partite(g, s))
            IN  IF t.kind = "basic" THEN ForNext(t, "check") ELSE [t EXCEPT !.pc = "check"]
      [] s.pc = "check"      ->
            IF converged(s) THEN [s EXCEPT !.pc = "print"]
            ELSE IF s.kind = "basic" THEN [copy_prev(s) EXCEPT !.pc = "left"]
            ELSE ForNext(copy_prev(s), "left")
      [] s.pc = "print"      ->
            IF s.i = Unbound THEN [s EXCEPT !.pc = "raised"]
            ELSE [s EXCEPT !.pc = "done", !.out = returned(s)]

RECURSIVE RunSolver(_, _)
\* a whole solver call on g, from state s to its return or its exception
RunSolver(g, s) ==
    IF s.pc \in {"done", "raised"} THEN s ELSE RunSolver(g, StepSolver(g, s))

\* the add_edge calls of the split-and-solve runs: two groups of nodes,
\* A, B with 1, 2 and C, D with 3, 4, and one edge B-3 that joins them
SplitSolveCalls ==
    { <<"A", 1, Scale>>, <<"A", 2, 2 * Scale>>, <<"B", 1, Scale>>,
      <<"C", 3, Scale>>, <<"C", 4, Scale>>, <<"D", 3, Scale>>,
      <<"B", 3, Scale>> }

\* 1e-4, the default, and 0.05
Tolerances == {DefaultEps, Scale \div 20}

NextSplitSolve ==
    \/ \E c \in SplitSolveCalls : AddEdge(c[1], c[2], c[3])
    \/ SplitStart
    \/ SplitStep
    \/ SplitReturn
    \/ \E eps \in Tolerances : spc = "returned" /\ StartBasic(DefaultR, DefaultMaxIter, eps)
    \/ \E eps \in Tolerances : spc = "returned" /\ StartPP(DefaultR, DefaultMaxIter, eps)
    \/ SolverStep

SpecSplitSolve == Init /\ [][NextSplitSolve]_vars

\* the solver call on output c of split_subgraphs with the arguments of the
\* call on the unsplit graph
ComponentSolve(c) ==
    RunSolver(c, SolverStart(c, sv.kind, sv.r, sv.max_iter, sv.eps))

\* 1e-5: two similarities the same within floating tolerance
FloatTol == Scale \div 100000

\* the nodes of one side of g
SideNodes(g, is_lns) == IF is_lns THEN DOMAIN g.lns ELSE DOMAIN g.rns

SideIndex(g, is_lns) == IF is_lns THEN get_lns_index(g) ELSE get_rns_index(g)

SideMatrix(m, is_lns) == IF is_lns THEN m.L ELSE m.R

\* the matrices mc of output c and mg of the unsplit graph agree on every
\* pair of same-side nodes of c
AgreeOn(c, mc, mg) ==
    \A is_lns \in BOOLEAN : \A u, v \in SideNodes(c, is_lns) :
        AbsDiff(SideMatrix(mc, is_lns)[SideIndex(c, is_lns)[u]][SideIndex(c, is_lns)[v]],
                SideMatrix(mg, is_lns)[SideIndex(G, is_lns)[u]][SideIndex(G, is_lns)[v]])
            <= FloatTol

\* in the matrices m of the unsplit graph every pair of same-side nodes of
\* different outputs of split_subgraphs has similarity 0
CrossZero(m) ==
    \A i, j \in 1..Len(result_list) : i # j =>
        \A is_lns \in BOOLEAN :
            \A u \in SideNodes(result_list[i], is_lns), v \in SideNodes(result_list[j], is_lns) :
                SideMatrix(m, is_lns)[SideIndex(G, is_lns)[u]][SideIndex(G, is_lns)[v]] = 0

SplitSolved == spc = "returned" /\ sv.pc = "done"

\* C4: after split_subgraphs, a solver call on every output returns, for
\* every pair of same-side nodes of that output, the similarity the same call
\* on the unsplit graph returns (within floating tolerance), and in the
\* unsplit solve nodes of different outputs have similarity 0 after every pass.
C4_SplitSolveSame ==
    /\ SplitSolved =>
          \A k \in 1..Len(result_list) :
              LET cs == ComponentSolve(result_list[k])
              IN  cs.pc = "done" /\ AgreeOn(result_list[k], cs.out, sv.out)
    /\ (spc = "returned" /\ Started) => \A p \in 1..Len(sv.trace) : CrossZero(sv.trace[p])

\* C4 as amended: after split_subgraphs, a solver call on every output has,
\* after each pass, for every pair of same-side nodes of that output, the
\* similarity the same call on the unsplit graph has after that pass, for as
\* many passes as both calls make, and the same evidence; so the returned
\* similarities are the same whenever the two calls stop after the same
\* number of passes. In the unsplit solve nodes of different outputs have
\* similarity 0 after every pass.
C4_SplitSolveSamePasses ==
    /\ SplitSolved =>
          \A k \in 1..Len(result_list) :
              LET c  == result_list[k]
                  cs == ComponentSolve(c)
              IN  /\ cs.pc = "done"
                  /\ Len(cs.trace) <= Len(sv.trace)
                  /\ \A p \in 1..Len(cs.trace) : AgreeOn(c, cs.trace[p], sv.trace[p])
                  /\ AgreeOn(c, [L |-> cs.lns_evidence, R |-> cs.rns_evidence],
                                [L |-> sv.lns_evidence, R |-> sv.rns_evidence])
                  /\ Len(cs.trace) = Len(sv.trace) => AgreeOn(c, cs.out, sv.out)
    /\ (spc = "returned" /\ Started) => \A p \in 1..Len(sv.trace) : CrossZero(sv.trace[p])

\* C4 witness: SimRank++ has returned on a graph of two components, and the
\* call on one of the outputs makes fewer passes than the call on the graph
C4_Witness ==
    /\ SplitSolved /\ sv.kind = "pp" /\ Len(result_list) = 2
    /\ \E k \in 1..2 : Len(ComponentSolve(result_list[k]).trace) < Len(sv.trace)
    /\ \E k \in 1..2 : Len(ComponentSolve(result_list[k]).trace) = Len(sv.trace)

====
